---------------------------- MODULE Spec2Model ----------------------------
(***************************************************************************)
(* A model of szabala/kvs: the copy-on-write B-tree core                   *)
(* (internal/btree/bnode.go, internal/btree/btree.go) and the atomic file  *)
(* replacement primitive SaveData (internal/fs/fs.go).                     *)
(*                                                                         *)
(* A byte string is modelled by its length and its fill byte: Bytes(b, n)  *)
(* is the byte b repeated n times.  That bounds the inputs, it does not    *)
(* change the code: bytes.Compare, len and copy are modelled by what they  *)
(* do on such strings.                                                     *)
(*                                                                         *)
(* A BNode is a Go slice: a reference [id, len] into a heap of buffers.    *)
(* A buffer keeps the regions of the page layout                           *)
(*   | btype | nkeys | pointers | offsets | key-values |                   *)
(* as btype, nkeys, ptr (by index), off (by index) and kv (by absolute     *)
(* byte position of the record).  Every access checks the slice bounds the *)
(* Go runtime checks, and every utils.Assert; a failed check is a panic.   *)
(***************************************************************************)
EXTENDS Integers, Sequences, FiniteSets, TLC

VARIABLES
    mem,      \* [heap: the buffers allocated so far, panic: a panic is unwinding]
    pages,    \* page store: page number -> the slice registered under it
    live,     \* page store: page numbers allocated and not released by del
    tree,     \* BTree: [root |-> page number]
    stack,    \* the treeInsert frames, innermost last
    status,   \* "idle" | "run" | "returned" | "panicked"
    ret,      \* the slice returned by the last top-level treeInsert
    log,      \* page-store callbacks issued by the current top-level call
    hist,     \* the top-level calls that returned: [node, key, val, out]
    pre,      \* snapshot taken when the current top-level call started
    lk,       \* harness of nodeLookupLE
    sp,       \* harness of nodeSplit3 and of nodeSplit2
    cd,       \* harness of the node mutators (nodeAppendKV, leafInsert, leafUpdate)
    fs,       \* file system: [dcache, ddisk, inodes]
    proc,     \* SaveData calls: process -> [pc, tmp, ino, err, ...]
    crashed   \* the machine crashed and came back up

treeVars == <<mem, pages, live, tree, stack, status, ret, log, hist, pre>>
fsVars == <<fs, proc, crashed>>
vars == <<mem, pages, live, tree, stack, status, ret, log, hist, pre, lk, sp, cd, fs, proc, crashed>>

---------------------------------------------------------------------------
(* Program constants, bnode.go lines 10-16. *)
BNODE_NODE == 1
BNODE_LEAF == 2
BTREE_PAGE_SIZE == 4096
BTREE_MAX_KEY_SIZE == 1000
BTREE_MAX_VAL_SIZE == 3000

(* uint16 arithmetic: the value of an integer expression truncated to 16 bits. *)
U16(x) == (x + 65536 * 4) % 65536

---------------------------------------------------------------------------
(* Byte strings. *)
Bytes(b, n) == [b |-> IF n = 0 THEN 0 ELSE b, n |-> n]
Nil == Bytes(0, 0)
ByteLen(s) == s.n

(* bytes.Compare: lexicographic order; -1, 0 or 1. *)
Compare(x, y) ==
    IF x.n > 0 /\ y.n > 0 /\ x.b # y.b
    THEN (IF x.b < y.b THEN -1 ELSE 1)
    ELSE IF x.n < y.n THEN -1 ELSE IF x.n > y.n THEN 1 ELSE 0

(* bytes.Equal *)
Equal(x, y) == Compare(x, y) = 0

---------------------------------------------------------------------------
(* Sparse regions of a zeroed buffer: what was never written reads as 0. *)
Get(f, i, zero) == IF i \in DOMAIN f THEN f[i] ELSE zero
Put(f, i, v) == [j \in (DOMAIN f) \cup {i} |-> IF j = i THEN v ELSE f[j]]

ZeroRec == [klen |-> 0, vlen |-> 0, kb |-> 0, vb |-> 0]

(* make([]byte, n): a zeroed buffer. *)
NewBuf(n) == [cap |-> n, btype |-> 0, nkeys |-> 0, ptr |-> <<>>, off |-> <<>>, kv |-> <<>>]

(* The slice value [id, len] of a buffer of the heap. *)
Slice(id, n) == [id |-> id, len |-> n]
NoSlice == Slice(0, 0)

(* The bytes a slice shows: the buffer, bounded by the slice's length. *)
View(m, s) == [m.heap[s.id] EXCEPT !.cap = s.len]

(* A write through slice s: the buffer changes, its allocation does not. *)
Store(m, s, node) == [m EXCEPT !.heap[s.id] = [node EXCEPT !.cap = m.heap[s.id].cap]]

Panic(m) == [m EXCEPT !.panic = TRUE]

(* make: allocate a buffer; the new slice is Slice(Len(heap) + 1, n). *)
Alloc(m, n) == [m EXCEPT !.heap = Append(@, NewBuf(n))]
Last(m, n) == Slice(Len(m.heap), n)

---------------------------------------------------------------------------
(* Node codec, bnode.go lines 32-98.  An accessor X comes with XOK: the    *)
(* assertion and the bounds checks under which the Go code returns.        *)
btype(node) == node.btype
nkeys(node) == node.nkeys

setHeader(m, s, bt, nk) ==
    IF m.panic THEN m
    ELSE IF s.len < 4 THEN Panic(m)
    ELSE Store(m, s, [View(m, s) EXCEPT !.btype = bt, !.nkeys = nk])

getPtrOK(node, idx) == idx < nkeys(node) /\ U16(4 + 8 * idx) + 8 <= node.cap
getPtr(node, idx) == Get(node.ptr, idx, 0)

setPtr(m, s, idx, val) ==
    IF m.panic THEN m
    ELSE IF ~getPtrOK(View(m, s), idx) THEN Panic(m)
    ELSE Store(m, s, [View(m, s) EXCEPT !.ptr = Put(@, idx, val)])

OffsetPos(node, idx) == U16(4 + 8 * nkeys(node) + 2 * (idx - 1))
getOffsetOK(node, idx) == idx = 0 \/ OffsetPos(node, idx) + 2 <= node.cap
getOffset(node, idx) == IF idx = 0 THEN 0 ELSE Get(node.off, idx, 0)

setOffset(m, s, idx, val) ==
    IF m.panic THEN m
    ELSE IF ~(idx <= nkeys(View(m, s))) THEN Panic(m)
    ELSE IF OffsetPos(View(m, s), idx) + 2 > s.len THEN Panic(m)
    ELSE Store(m, s, [View(m, s) EXCEPT !.off = Put(@, idx, val)])

(* kvPos leaving the offset array out of the position. *)
kvPosNoOffsets(node, idx) == U16(4 + 8 * nkeys(node) + getOffset(node, idx))

kvPosOK(node, idx) == idx <= nkeys(node) /\ getOffsetOK(node, idx)
kvPos(node, idx) == U16(4 + 8 * nkeys(node) + 2 * nkeys(node) + getOffset(node, idx))

RecAt(node, pos) == Get(node.kv, pos, ZeroRec)

(* getKey without the assertion of line 80. *)
getKeyUnasserted(node, idx) ==
    /\ kvPosOK(node, idx)
    /\ kvPos(node, idx) + 2 <= node.cap
    /\ U16(kvPos(node, idx) + 4) + RecAt(node, kvPos(node, idx)).klen <= node.cap

getKeyOK(node, idx) ==
    /\ idx < nkeys(node)
    /\ kvPosOK(node, idx)
    /\ kvPos(node, idx) + 2 <= node.cap
    /\ U16(kvPos(node, idx) + 4) + RecAt(node, kvPos(node, idx)).klen <= node.cap
getKey(node, idx) ==
    LET rec == RecAt(node, kvPos(node, idx)) IN Bytes(rec.kb, rec.klen)

getValOK(node, idx) ==
    /\ idx < nkeys(node)
    /\ kvPosOK(node, idx)
    /\ kvPos(node, idx) + 4 <= node.cap
    /\ LET rec == RecAt(node, kvPos(node, idx))
       IN U16(kvPos(node, idx) + 4 + rec.klen) + rec.vlen <= node.cap
getVal(node, idx) ==
    LET rec == RecAt(node, kvPos(node, idx)) IN Bytes(rec.vb, rec.vlen)

nbytes(node) == kvPos(node, nkeys(node))

---------------------------------------------------------------------------
(* Node mutators, bnode.go lines 100-142. *)

(* nodeAppendKV, lines 101-111: the pointer, the two length prefixes, then  *)
(* copy of key and of val, then the next offset.  copy stops at the end of  *)
(* the slice without failing; slicing past the end panics.                 *)
nodeAppendKV(m, s, idx, ptr, key, val) ==
    LET m1 == setPtr(m, s, idx, ptr)
        node == View(m1, s)
        pos == kvPos(node, idx)
        rec == [klen |-> U16(ByteLen(key)), vlen |-> U16(ByteLen(val)),
                kb |-> key.b, vb |-> val.b]
    IN  IF m1.panic THEN m1
        ELSE IF ~kvPosOK(node, idx) THEN Panic(m1)
        ELSE IF pos + 4 > s.len THEN Panic(m1)
        ELSE IF U16(pos + 4 + U16(ByteLen(key))) > s.len THEN Panic(m1)
        ELSE LET m2 == Store(m1, s, [node EXCEPT !.kv = Put(@, pos, rec)])
             IN  setOffset(m2, s, idx + 1,
                     U16(getOffset(View(m2, s), idx) + 4 + U16(ByteLen(key) + ByteLen(val))))

RECURSIVE AppendLoop(_, _, _, _, _, _, _)
AppendLoop(m, new, old, dstNew, srcOld, n, i) ==
    IF m.panic \/ ~(i < n) THEN m
    ELSE LET src == U16(srcOld + i)
             dst == U16(dstNew + i)
             o == View(m, old)
         IN  IF ~(getPtrOK(o, src) /\ getKeyOK(o, src) /\ getValOK(o, src))
             THEN Panic(m)
             ELSE AppendLoop(
                      nodeAppendKV(m, new, dst, getPtr(o, src), getKey(o, src), getVal(o, src)),
                      new, old, dstNew, srcOld, n, i + 1)

nodeAppendRange(m, new, old, dstNew, srcOld, n) ==
    AppendLoop(m, new, old, dstNew, srcOld, n, 0)

(* leafInsert copying the tail the way leafUpdate does, from idx + 1. *)
leafInsertDropsOne(m, new, old, idx, key, val) ==
    LET m1 == setHeader(m, new, BNODE_LEAF, U16(nkeys(View(m, old)) + 1))
        m2 == nodeAppendRange(m1, new, old, 0, 0, idx)
        m3 == nodeAppendKV(m2, new, idx, 0, key, val)
    IN  nodeAppendRange(m3, new, old, U16(idx + 1), U16(idx + 1),
                        U16(nkeys(View(m, old)) - (idx + 1)))

leafInsert(m, new, old, idx, key, val) ==
    LET m1 == setHeader(m, new, BNODE_LEAF, U16(nkeys(View(m, old)) + 1))
        m2 == nodeAppendRange(m1, new, old, 0, 0, idx)
        m3 == nodeAppendKV(m2, new, idx, 0, key, val)
    IN  nodeAppendRange(m3, new, old, U16(idx + 1), idx, U16(nkeys(View(m, old)) - idx))

(* leafUpdate keeping the old value's length prefix. *)
leafUpdateKeepsLen(m, new, old, idx, key, val) ==
    LET m1 == setHeader(m, new, BNODE_LEAF, nkeys(View(m, old)))
        m2 == nodeAppendRange(m1, new, old, 0, 0, idx)
        m3 == nodeAppendKV(m2, new, idx, 0, key,
                  Bytes(val.b, ByteLen(getVal(View(m, old), idx))))
    IN  nodeAppendRange(m3, new, old, U16(idx + 1), U16(idx + 1),
                        U16(nkeys(View(m, old)) - (idx + 1)))

(* leafUpdate writing the record into old as well: an update in place. *)
leafUpdateInPlace(m, new, old, idx, key, val) ==
    LET m0 == nodeAppendKV(m, old, idx, 0, key, val)
        m1 == setHeader(m0, new, BNODE_LEAF, nkeys(View(m, old)))
        m2 == nodeAppendRange(m1, new, old, 0, 0, idx)
        m3 == nodeAppendKV(m2, new, idx, 0, key, val)
    IN  nodeAppendRange(m3, new, old, U16(idx + 1), U16(idx + 1),
                        U16(nkeys(View(m, old)) - (idx + 1)))

leafUpdate(m, new, old, idx, key, val) ==
    LET m1 == setHeader(m, new, BNODE_LEAF, nkeys(View(m, old)))
        m2 == nodeAppendRange(m1, new, old, 0, 0, idx)
        m3 == nodeAppendKV(m2, new, idx, 0, key, val)
    IN  nodeAppendRange(m3, new, old, U16(idx + 1), U16(idx + 1),
                        U16(nkeys(View(m, old)) - (idx + 1)))

---------------------------------------------------------------------------
(* nodeLookupLE, bnode.go lines 145-171.  PANICKED stands for a panic     *)
(* (here: of getKey inside the loop).                                      *)
PANICKED == -1

(* The loop of lines 152-166: how it ends ("return" from inside, "exit"    *)
(* by its condition or by break, "panic") with mid or hi.                  *)
RECURSIVE LookupLoop(_, _, _, _)
LookupLoop(node, key, lo, hi) ==
    IF ~(lo <= hi) THEN [how |-> "exit", v |-> hi]
    ELSE LET mid == lo + (hi - lo) \div 2
         IN  IF ~getKeyOK(node, mid) THEN [how |-> "panic", v |-> 0]
             ELSE LET cmp == Compare(getKey(node, mid), key)
                  IN  IF cmp = 0 THEN [how |-> "return", v |-> mid]
                      ELSE IF cmp < 0 THEN LookupLoop(node, key, mid + 1, hi)
                      ELSE IF mid = 0 THEN [how |-> "exit", v |-> hi]
                      ELSE LookupLoop(node, key, lo, mid - 1)

nodeLookupLE(node, key) ==
    IF nkeys(node) = 0 THEN 0
    ELSE LET r == LookupLoop(node, key, 0, nkeys(node) - 1)
         IN  IF r.how = "panic" THEN PANICKED
             ELSE IF r.how = "return" THEN r.v
             ELSE IF r.v < nkeys(node) THEN r.v
             ELSE 0

---------------------------------------------------------------------------
(* Splitter, bnode.go lines 173-222. *)

(* left_bytes, lines 179-181. *)
left_bytes(old, nleft) == U16(4 + 8 * nleft + 2 * nleft + getOffset(old, nleft))

(* right_bytes, lines 187-189. *)
right_bytes(old, nleft) == U16(nkeys(old) - left_bytes(old, nleft) + 4)

(* The loop of lines 182-184. *)
RECURSIVE ShrinkLeft(_, _)
ShrinkLeft(old, nleft) ==
    IF left_bytes(old, nleft) > BTREE_PAGE_SIZE
    THEN ShrinkLeft(old, U16(nleft - 1))
    ELSE nleft

(* The loop of lines 190-192.  Once nleft exceeds nkeys, getOffset(nleft)  *)
(* reads bytes of the key-value region (or past the slice, a panic); nleft *)
(* only grows there, so whatever those bytes hold the function cannot      *)
(* return: either the read panics, or the loop ends and the assertion of   *)
(* line 193 fails.  PANICKED stands for both.                              *)
RECURSIVE GrowLeft(_, _)
GrowLeft(old, nleft) ==
    IF nleft > nkeys(old) THEN PANICKED
    ELSE IF right_bytes(old, nleft) > BTREE_PAGE_SIZE
    THEN GrowLeft(old, nleft + 1)
    ELSE nleft

(* SplitPoint without the assertion of line 193. *)
SplitPointUnchecked(old) ==
    IF ~(nkeys(old) >= 2) THEN PANICKED
    ELSE LET n1 == ShrinkLeft(old, nkeys(old) \div 2)
         IN  IF ~(n1 >= 1) THEN PANICKED
             ELSE GrowLeft(old, n1)

(* The nleft nodeSplit2 settles on, or PANICKED. *)
SplitPoint(old) ==
    IF ~(nkeys(old) >= 2) THEN PANICKED                    \* line 175
    ELSE LET n1 == ShrinkLeft(old, nkeys(old) \div 2)
         IN  IF ~(n1 >= 1) THEN PANICKED                   \* line 185
             ELSE LET n2 == GrowLeft(old, n1)
                  IN  IF n2 = PANICKED \/ ~(n2 < nkeys(old)) THEN PANICKED  \* line 193
                      ELSE n2

nodeSplit2(m, left, right, old) ==
    IF m.panic THEN m
    ELSE LET o == View(m, old)
             nleft == SplitPoint(o)
             nright == nkeys(o) - nleft
         IN  IF nleft = PANICKED THEN Panic(m)
             ELSE LET m1 == setHeader(m, left, btype(o), nleft)
                      m2 == setHeader(m1, right, btype(o), nright)
                      m3 == nodeAppendRange(m2, left, old, 0, 0, nleft)
                      m4 == nodeAppendRange(m3, right, old, 0, nleft, nright)
                  IN  IF m4.panic THEN m4
                      ELSE IF ~(nbytes(View(m4, right)) <= BTREE_PAGE_SIZE) THEN Panic(m4)
                      ELSE m4

(* nodeSplit3: [m, nsplit, split]; split holds the returned slices. *)
SplitResult(m, kids) == [m |-> m, nsplit |-> Len(kids), split |-> kids]

(* Lines 217-221: the left half is split again. *)
Split3Third(m2, leftleft, middle, right) ==
    IF m2.panic THEN SplitResult(m2, <<>>)
    ELSE IF ~(nbytes(View(m2, leftleft)) <= BTREE_PAGE_SIZE) THEN SplitResult(Panic(m2), <<>>)
    ELSE SplitResult(m2, <<leftleft, middle, right>>)

(* Lines 213-219. *)
Split3Second(m1, left, right) ==
    IF m1.panic THEN SplitResult(m1, <<>>)
    ELSE IF nbytes(View(m1, left)) <= BTREE_PAGE_SIZE
    THEN SplitResult(m1, <<Slice(left.id, BTREE_PAGE_SIZE), right>>)
    ELSE Split3Third(
             nodeSplit2(Alloc(Alloc(m1, BTREE_PAGE_SIZE), BTREE_PAGE_SIZE),
                        Slice(Len(m1.heap) + 1, BTREE_PAGE_SIZE),
                        Slice(Len(m1.heap) + 2, BTREE_PAGE_SIZE), left),
             Slice(Len(m1.heap) + 1, BTREE_PAGE_SIZE),
             Slice(Len(m1.heap) + 2, BTREE_PAGE_SIZE), right)

nodeSplit3(m, old) ==
    IF m.panic THEN SplitResult(m, <<>>)
    ELSE IF nbytes(View(m, old)) <= BTREE_PAGE_SIZE
    THEN (IF m.heap[old.id].cap < BTREE_PAGE_SIZE          \* old[:BTREE_PAGE_SIZE]
          THEN SplitResult(Panic(m), <<>>)
          ELSE SplitResult(m, <<Slice(old.id, BTREE_PAGE_SIZE)>>))
    ELSE Split3Second(
             nodeSplit2(Alloc(Alloc(m, 2 * BTREE_PAGE_SIZE), BTREE_PAGE_SIZE),
                        Slice(Len(m.heap) + 1, 2 * BTREE_PAGE_SIZE),
                        Slice(Len(m.heap) + 2, BTREE_PAGE_SIZE), old),
             Slice(Len(m.heap) + 1, 2 * BTREE_PAGE_SIZE),
             Slice(Len(m.heap) + 2, BTREE_PAGE_SIZE))

---------------------------------------------------------------------------
(* What a node holds, read through the codec: entry i is                   *)
(* <<getPtr(i-1), getKey(i-1), getVal(i-1)>>.                              *)
Entries(node) ==
    [i \in 1..nkeys(node) |-> <<getPtr(node, i - 1), getKey(node, i - 1), getVal(node, i - 1)>>]
Sorted(node) ==
    \A i \in 1..(nkeys(node) - 1) : Compare(getKey(node, i - 1), getKey(node, i)) < 0

(* A node built the way the tests build one (bnode_test.go lines 21-29):   *)
(* setHeader on a zeroed buffer, then nodeAppendKV slot by slot.           *)
EmptyMem == [heap |-> <<>>, panic |-> FALSE]

RECURSIVE FillNode(_, _, _, _)
FillNode(m, s, recs, i) ==
    IF i > Len(recs) THEN m
    ELSE FillNode(nodeAppendKV(m, s, i - 1, recs[i][1], recs[i][2], recs[i][3]), s, recs, i + 1)

(* m with one more buffer of n bytes holding a node of type bt with recs. *)
AddNode(m, n, bt, recs) ==
    LET m1 == Alloc(m, n)
        s == Last(m1, n)
    IN  FillNode(setHeader(m1, s, bt, Len(recs)), s, recs, 1)

(* Bounds of the harnesses. *)
MaxKeys == 5          \* keys of a node handed to nodeLookupLE
MaxSplitKeys == 3     \* records of a node handed to nodeSplit3

(* Keys "1".."6" as two-byte strings, one short and one of maximal size. *)
ShortKeys == {Bytes(b, 2) : b \in 1..6}
ProbeKeys == ShortKeys \cup {Bytes(3, 1), Bytes(3, 3), Bytes(7, BTREE_MAX_KEY_SIZE), Nil}
Vals == {Bytes(8, 2), Bytes(9, 3), Bytes(9, 1500), Bytes(9, BTREE_MAX_VAL_SIZE)}

(* The strictly ascending key sequences of at most n keys of S. *)
AscendingSeqs(S, n) ==
    UNION {{q \in [1..k -> S] : \A i \in 1..(k - 1) : Compare(q[i], q[i + 1]) < 0} : k \in 0..n}

LeafOf(keys, vals) ==
    LET m == AddNode(EmptyMem, 2 * BTREE_PAGE_SIZE, BNODE_LEAF,
                     [i \in 1..Len(keys) |-> <<0, keys[i], vals[i]>>])
    IN  m

---------------------------------------------------------------------------
(* Harness of nodeLookupLE: a node with strictly ascending keys and a      *)
(* target are drawn, then the function is applied.                         *)
LookupInit ==
    \E keys \in AscendingSeqs(ProbeKeys \ {Nil, Bytes(3, 1)}, MaxKeys) :
    \E key \in ProbeKeys :
        lk = [node |-> View(LeafOf(keys, [i \in 1..Len(keys) |-> Bytes(8, 2)]),
                            Slice(1, BTREE_PAGE_SIZE)),
              key |-> key, pc |-> "call", res |-> 0]

LookupApply ==
    /\ lk.pc = "call"
    /\ lk' = [lk EXCEPT !.pc = "done", !.res = nodeLookupLE(lk.node, lk.key)]
    /\ UNCHANGED <<treeVars, sp, cd, fsVars>>

(* Harness of nodeSplit3: a leaf as large as the 2-page buffer allows is   *)
(* drawn, then the function is applied.                                    *)
SplitInit ==
    \E keys \in AscendingSeqs(ShortKeys \cup {Bytes(7, BTREE_MAX_KEY_SIZE)}, MaxSplitKeys) :
    \E vals \in [1..Len(keys) -> Vals] :
        /\ ~LeafOf(keys, vals).panic
        /\ sp = [m |-> LeafOf(keys, vals), old |-> Slice(1, 2 * BTREE_PAGE_SIZE),
                 input |-> View(LeafOf(keys, vals), Slice(1, 2 * BTREE_PAGE_SIZE)),
                 pc |-> "call", nsplit |-> 0, split |-> <<>>]

SplitApply ==
    /\ sp.pc = "call"
    /\ LET r == nodeSplit3(sp.m, sp.old)
       IN  sp' = [sp EXCEPT !.pc = IF r.m.panic THEN "panicked" ELSE "done",
                            !.m = r.m, !.nsplit = r.nsplit, !.split = r.split]
    /\ UNCHANGED <<treeVars, lk, cd, fsVars>>

(* Harness of nodeSplit2 (bnode.go lines 174-202) called on its own: old   *)
(* is a leaf built through the codec, in the 2-page buffer treeInsert      *)
(* works in or in a buffer of nearly 64 KiB (which also holds records      *)
(* beyond the size ceilings, that nothing in the code rejects); left and   *)
(* right are the buffers nodeSplit3 passes (lines 210-211, 217-218) or     *)
(* larger ones.  The buffers stay below 65536 bytes, so that every read    *)
(* of an offset beyond the node's last one ends in a bounds panic.         *)
BigBuf == 16 * BTREE_PAGE_SIZE - 8
Huge == Bytes(9, 15 * BTREE_PAGE_SIZE)
Split2Keys == {Bytes(b, 2) : b \in 1..4}
Split2Vals == {Bytes(8, 2), Bytes(9, BTREE_MAX_VAL_SIZE), Huge}
Split2Bufs == {<<2 * BTREE_PAGE_SIZE, BTREE_PAGE_SIZE>>, <<BTREE_PAGE_SIZE, BTREE_PAGE_SIZE>>,
               <<BigBuf, BTREE_PAGE_SIZE>>}

(* The memory of a call: buffer 1 holds old, buffers 2 and 3 are left and right. *)
Split2Mem(n, keys, vals, bufs) ==
    Alloc(Alloc(AddNode(EmptyMem, n, BNODE_LEAF, [i \in 1..Len(keys) |-> <<0, keys[i], vals[i]>>]),
                bufs[1]), bufs[2])

Split2Init ==
    \E n \in {2 * BTREE_PAGE_SIZE, BigBuf} :
    \E keys \in AscendingSeqs(Split2Keys, MaxSplitKeys) :
    \E vals \in [1..Len(keys) -> Split2Vals] :
    \E bufs \in Split2Bufs :
        /\ ~Split2Mem(n, keys, vals, bufs).panic
        /\ nbytes(View(Split2Mem(n, keys, vals, bufs), Slice(1, n))) <= n
        /\ sp = [m |-> Split2Mem(n, keys, vals, bufs), old |-> Slice(1, n),
                 left |-> Slice(2, bufs[1]), right |-> Slice(3, bufs[2]),
                 input |-> View(Split2Mem(n, keys, vals, bufs), Slice(1, n)),
                 pc |-> "call2", nleft |-> 0]

Split2Apply ==
    /\ sp.pc = "call2"
    /\ LET m1 == nodeSplit2(sp.m, sp.left, sp.right, sp.old)
       IN  sp' = [sp EXCEPT !.pc = IF m1.panic THEN "panicked2" ELSE "done2",
                            !.m = m1, !.nleft = SplitPoint(sp.input)]
    /\ UNCHANGED <<treeVars, lk, cd, fsVars>>

(* Harness of leafInsert and leafUpdate (bnode.go lines 125-142): old is a *)
(* leaf in a one-page buffer, as a page holds it; new is a zeroed buffer   *)
(* of two pages (treeInsert, btree.go line 30) or of one (the tests,       *)
(* bnode_test.go lines 67 and 85) that the result fits.                    *)
MaxLeafKeys == 3      \* keys of a node handed to leafInsert, leafUpdate, nodeReplaceKidN

LeafKeys == {Bytes(b, 2) : b \in {1, 2, 4, 6}}
LeafVals == {Bytes(8, 2), Bytes(9, 3), Bytes(9, 1500)}
NewKeys == {Bytes(3, 2), Bytes(7, BTREE_MAX_KEY_SIZE)}
NewVals == {Nil, Bytes(5, 3), Bytes(5, BTREE_MAX_VAL_SIZE)}

LeafMem(keys, vals, n) ==
    Alloc(AddNode(EmptyMem, BTREE_PAGE_SIZE, BNODE_LEAF,
                  [i \in 1..Len(keys) |-> <<0, keys[i], vals[i]>>]), n)

LeafInit ==
    \E keys \in AscendingSeqs(LeafKeys, MaxLeafKeys) :
    \E vals \in [1..Len(keys) -> LeafVals] :
    \E n \in {BTREE_PAGE_SIZE, 2 * BTREE_PAGE_SIZE} :
    \E idx \in 0..Len(keys), key \in NewKeys, val \in NewVals :
        /\ ~LeafMem(keys, vals, n).panic
        /\ nbytes(View(LeafMem(keys, vals, n), Slice(1, BTREE_PAGE_SIZE))) <= BTREE_PAGE_SIZE
        /\ cd = [m |-> LeafMem(keys, vals, n), old |-> Slice(1, BTREE_PAGE_SIZE),
                 new |-> Slice(2, n), idx |-> idx, key |-> key, val |-> val,
                 input |-> View(LeafMem(keys, vals, n), Slice(1, BTREE_PAGE_SIZE)),
                 pc |-> "call"]

(* The size of the record (key, val) in a node: lines 104-108. *)
RecSize(key, val) == 4 + ByteLen(key) + ByteLen(val)

LeafInsertApply ==
    /\ cd.pc = "call"
    /\ nbytes(cd.input) + 8 + 2 + RecSize(cd.key, cd.val) <= cd.new.len
    /\ LET m1 == leafInsert(cd.m, cd.new, cd.old, cd.idx, cd.key, cd.val)
       IN  cd' = [cd EXCEPT !.m = m1, !.pc = IF m1.panic THEN "insert_panicked" ELSE "inserted"]
    /\ UNCHANGED <<treeVars, lk, sp, fsVars>>

LeafUpdateApply ==
    /\ cd.pc = "call"
    /\ cd.idx < nkeys(cd.input)
    /\ nbytes(cd.input) - RecSize(getKey(cd.input, cd.idx), getVal(cd.input, cd.idx))
         + RecSize(cd.key, cd.val) <= cd.new.len
    /\ LET m1 == leafUpdate(cd.m, cd.new, cd.old, cd.idx, cd.key, cd.val)
       IN  cd' = [cd EXCEPT !.m = m1, !.pc = IF m1.panic THEN "update_panicked" ELSE "updated"]
    /\ UNCHANGED <<treeVars, lk, sp, fsVars>>

(* Harness of nodeAppendKV (bnode.go lines 101-111), used the way          *)
(* setupBtreeNode does (bnode_test.go lines 20-29): setHeader declares the *)
(* number of keys on a zeroed buffer of one page (or of two, as treeInsert *)
(* allocates), then the slots are filled left to right, one call a step.   *)
MaxAppend == 3        \* records appended to one node

AppendRecs(bt) ==
    UNION {[1..k -> {<<IF bt = BNODE_NODE THEN 7 ELSE 0, key, val>> :
                        key \in NewKeys, val \in NewVals}] : k \in 0..MaxAppend}

AppendInit ==
    \E n \in {BTREE_PAGE_SIZE, 2 * BTREE_PAGE_SIZE}, bt \in {BNODE_NODE, BNODE_LEAF} :
    \E recs \in AppendRecs(bt) :
        cd = [m |-> setHeader(Alloc(EmptyMem, n), Slice(1, n), bt, Len(recs)),
              node |-> Slice(1, n), recs |-> recs, i |-> 0, pc |-> "fill"]

AppendStep ==
    /\ cd.pc = "fill"
    /\ cd.i < Len(cd.recs)
    /\ LET rec == cd.recs[cd.i + 1]
           m1 == nodeAppendKV(cd.m, cd.node, cd.i, rec[1] + cd.i, rec[2], rec[3])
       IN  cd' = [cd EXCEPT !.m = m1, !.i = cd.i + 1,
                            !.pc = IF m1.panic THEN "fill_panicked" ELSE "fill"]
    /\ UNCHANGED <<treeVars, lk, sp, fsVars>>

(* Harness of nbytes (bnode.go lines 96-98) on a node holding one record:  *)
(* the key and value lengths run over the edges of the ranges the size     *)
(* ceilings allow.                                                         *)
EdgeLens == 2         \* lengths drawn within this distance of 0 and of the ceiling

LensUpTo(max) == (0..EdgeLens) \cup ((max - EdgeLens)..max)

OneInit ==
    \E n \in {BTREE_PAGE_SIZE, 2 * BTREE_PAGE_SIZE}, bt \in {BNODE_NODE, BNODE_LEAF} :
    \E klen \in LensUpTo(BTREE_MAX_KEY_SIZE), vlen \in LensUpTo(BTREE_MAX_VAL_SIZE) :
        cd = [m |-> Alloc(EmptyMem, n), node |-> Slice(1, n), bt |-> bt,
              key |-> Bytes(3, klen), val |-> Bytes(5, vlen), pc |-> "one"]

OneBuild ==
    /\ cd.pc = "one"
    /\ LET m1 == nodeAppendKV(setHeader(cd.m, cd.node, cd.bt, 1), cd.node, 0, 0, cd.key, cd.val)
       IN  cd' = [cd EXCEPT !.m = m1, !.pc = IF m1.panic THEN "one_panicked" ELSE "built"]
    /\ UNCHANGED <<treeVars, lk, sp, fsVars>>

---------------------------------------------------------------------------
(* The page store: the three callbacks of BTree (btree.go lines 9-11).     *)
(* The repository holds no implementation; this is the store of spec       *)
(* section 6: get returns the slice registered by new, new hands out a     *)
(* fresh page number, del releases one.                                    *)
get(p) == pages[p]
FreshPage == Cardinality(DOMAIN pages) + 1

(* The pages reachable from page p through the pointers of internal nodes. *)
RECURSIVE ReachFrom(_, _)
ReachFrom(p, depth) ==
    IF p \notin DOMAIN pages THEN {}
    ELSE LET node == View(mem, pages[p])
         IN  {p} \cup
             (IF btype(node) = BNODE_NODE /\ depth > 0
              THEN UNION {ReachFrom(getPtr(node, i), depth - 1) : i \in 0..(nkeys(node) - 1)}
              ELSE {})
Reachable(p) == ReachFrom(p, Cardinality(DOMAIN pages))

---------------------------------------------------------------------------
(* Tree engine, btree.go.  A frame is one activation of treeInsert; pc is  *)
(* the place it has reached: "enter" (line 28), "get" (about to call       *)
(* tree.get, line 43), "wait" (in the recursive call), "del" (about to     *)
(* call tree.del, line 47), "new" (about to call tree.new, line 23),       *)
(* "ret" (about to return, line 51).                                       *)
Frame(node, key, val) ==
    [node |-> node, key |-> key, val |-> val, new |-> NoSlice, idx |-> 0, kptr |-> 0,
     knode |-> NoSlice, split |-> <<>>, i |-> 0, pc |-> "enter"]

Top == stack[Len(stack)]
SetTop(f) == [stack EXCEPT ![Len(stack)] = f]

(* A page-store callback as the log keeps it: the callback and its page    *)
(* number, whether that page was reachable from tree.root, the slice       *)
(* handed to new, and of the frame that issued it the depth, the node and  *)
(* key it works on, the loop index of line 22 and the number of kids.      *)
Event(op, page, reachable, arg) ==
    [op |-> op, page |-> page, reachable |-> reachable, arg |-> arg, depth |-> Len(stack),
     node |-> Top.node, key |-> Top.key, kid |-> Top.i + 1, of |-> Len(Top.split)]

(* The step's outcome: a panic unwinds every frame. *)
Proceed(m, stk) ==
    /\ mem' = m
    /\ status' = IF m.panic THEN "panicked" ELSE "run"
    /\ stack' = IF m.panic THEN <<>> ELSE stk

(* treeInsert lines 28-45, up to the first page-store callback or the      *)
(* return: the work buffer, the lookup, and for a leaf the update or       *)
(* insert.  [m, f]: the memory and the frame after it.                     *)
treeInsertEnter(m, f) ==
    LET m1 == Alloc(m, 2 * BTREE_PAGE_SIZE)
        new == Last(m1, 2 * BTREE_PAGE_SIZE)
        node == View(m1, f.node)
        idx == nodeLookupLE(node, f.key)
        f1 == [f EXCEPT !.new = new, !.idx = idx]
    IN  IF idx = PANICKED THEN [m |-> Panic(m1), f |-> f1]
        ELSE IF btype(node) = BNODE_LEAF
        THEN (IF ~getKeyOK(node, idx) THEN [m |-> Panic(m1), f |-> f1]
              ELSE IF Equal(f.key, getKey(node, idx))
              THEN [m |-> leafUpdate(m1, new, f.node, idx, f.key, f.val),
                    f |-> [f1 EXCEPT !.pc = "ret"]]
              ELSE [m |-> leafInsert(m1, new, f.node, U16(idx + 1), f.key, f.val),
                    f |-> [f1 EXCEPT !.pc = "ret"]])
        ELSE IF btype(node) = BNODE_NODE
        THEN (IF ~getPtrOK(node, idx) THEN [m |-> Panic(m1), f |-> f1]
              ELSE [m |-> m1, f |-> [f1 EXCEPT !.kptr = getPtr(node, idx), !.pc = "get"]])
        ELSE [m |-> m1, f |-> [f1 EXCEPT !.pc = "ret"]]

(* nodeReplaceKidN lines 19-21, up to the first tree.new. *)
replaceKidBegin(m, f) ==
    LET inc == Len(f.split)
        m1 == setHeader(m, f.new, BNODE_NODE, U16(nkeys(View(m, f.node)) + inc - 1))
    IN  nodeAppendRange(m1, f.new, f.node, 0, 0, f.idx)

(* replaceKidNext taking the separator from old's entry idx instead of    *)
(* the kid's first key.                                                    *)
replaceKidNextOldKey(m, f, p) ==
    LET inc == Len(f.split)
        m1 == nodeAppendKV(m, f.new, U16(f.idx + f.i), p, getKey(View(m, f.node), f.idx), Nil)
    IN  IF f.i + 1 < inc THEN m1
        ELSE nodeAppendRange(m1, f.new, f.node, U16(f.idx + inc), U16(f.idx + 1),
                             U16(nkeys(View(m, f.node)) - (f.idx + 1)))

(* nodeReplaceKidN line 23 for kid i once tree.new returned page p, and    *)
(* after the last kid line 25.                                             *)
replaceKidNext(m, f, p) ==
    LET inc == Len(f.split)
        kid == View(m, f.split[f.i + 1])
        m1 == IF ~getKeyOK(kid, 0) THEN Panic(m)
              ELSE nodeAppendKV(m, f.new, U16(f.idx + f.i), p, getKey(kid, 0), Nil)
    IN  IF f.i + 1 < inc THEN m1
        ELSE nodeAppendRange(m1, f.new, f.node, U16(f.idx + inc), U16(f.idx + 1),
                             U16(nkeys(View(m, f.node)) - (f.idx + 1)))

Snapshot(node) ==
    [heap |-> mem.heap, live |-> live, reach |-> Reachable(tree.root), node |-> node,
     gots |-> {}]

(* Bounds and inputs of the tree engine. *)
MaxCalls == 2         \* top-level treeInsert calls of one run

InsertKeys == {Bytes(1, 2), Bytes(3, 2), Bytes(4, 2), Bytes(6, 2),
               Bytes(7, BTREE_MAX_KEY_SIZE), Bytes(7, BTREE_MAX_KEY_SIZE + 1)}
InsertVals == {Bytes(8, 2), Bytes(9, 3), Bytes(9, BTREE_MAX_VAL_SIZE),
               Bytes(9, BTREE_MAX_VAL_SIZE + 1)}

(* A top-level call: the first on the root page's node, each later one on  *)
(* the node the previous call returned.                                    *)
TreeCall(key, val) ==
    /\ status \in {"idle", "returned"}
    /\ Len(hist) < MaxCalls
    /\ LET node == IF status = "idle" THEN get(tree.root) ELSE ret
       IN  /\ stack' = <<Frame(node, key, val)>>
           /\ pre' = Snapshot(node)
    /\ status' = "run"
    /\ log' = <<>>
    /\ UNCHANGED <<mem, pages, live, tree, ret, hist, lk, sp, cd, fsVars>>

TreeEnter ==
    /\ status = "run" /\ Top.pc = "enter"
    /\ LET r == treeInsertEnter(mem, Top) IN Proceed(r.m, SetTop(r.f))
    /\ UNCHANGED <<pages, live, tree, ret, log, hist, pre, lk, sp, cd, fsVars>>

(* tree.get(kptr) and the recursive call, line 43. *)
TreeGet ==
    /\ status = "run" /\ Top.pc = "get"
    /\ Top.kptr \in DOMAIN pages
    /\ stack' = Append(SetTop([Top EXCEPT !.pc = "wait"]),
                       Frame(get(Top.kptr), Top.key, Top.val))
    /\ log' = Append(log, Event("get", Top.kptr, FALSE, NoSlice))
    /\ pre' = [pre EXCEPT !.gots = @ \cup {get(Top.kptr)}]
    /\ UNCHANGED <<mem, pages, live, tree, status, ret, hist, lk, sp, cd, fsVars>>

(* TreeReturn with the caller going on to nodeReplaceKidN without the      *)
(* tree.del of line 47.                                                    *)
TreeReturnSkipsDel ==
    /\ status = "run" /\ Top.pc = "ret"
    /\ IF Len(stack) = 1
       THEN /\ status' = "returned"
            /\ ret' = Top.new
            /\ hist' = Append(hist, [node |-> Top.node, key |-> Top.key, val |-> Top.val,
                                     out |-> Top.new])
            /\ stack' = <<>>
            /\ UNCHANGED mem
       ELSE /\ LET caller == stack[Len(stack) - 1]
                   r == nodeSplit3(mem, Top.new)
                   f == [caller EXCEPT !.knode = Top.new, !.split = r.split, !.pc = "new", !.i = 0]
               IN  Proceed(replaceKidBegin(r.m, f), Append(SubSeq(stack, 1, Len(stack) - 2), f))
            /\ UNCHANGED <<ret, hist>>
    /\ UNCHANGED <<pages, live, tree, log, pre, lk, sp, cd, fsVars>>

(* return new, line 51; in the caller's frame nodeSplit3, line 45. *)
TreeReturn ==
    /\ status = "run" /\ Top.pc = "ret"
    /\ IF Len(stack) = 1
       THEN /\ status' = "returned"
            /\ ret' = Top.new
            /\ hist' = Append(hist, [node |-> Top.node, key |-> Top.key, val |-> Top.val,
                                     out |-> Top.new])
            /\ stack' = <<>>
            /\ UNCHANGED mem
       ELSE /\ LET caller == stack[Len(stack) - 1]
                   r == nodeSplit3(mem, Top.new)
               IN  Proceed(r.m, Append(SubSeq(stack, 1, Len(stack) - 2),
                                       [caller EXCEPT !.knode = Top.new, !.split = r.split,
                                                      !.pc = "del"]))
            /\ UNCHANGED <<ret, hist>>
    /\ UNCHANGED <<pages, live, tree, log, pre, lk, sp, cd, fsVars>>

(* tree.del(kptr), line 47, then nodeReplaceKidN up to its first tree.new. *)
TreeDel ==
    /\ status = "run" /\ Top.pc = "del"
    /\ live' = live \ {Top.kptr}
    /\ log' = Append(log, Event("del", Top.kptr, Top.kptr \in Reachable(tree.root), NoSlice))
    /\ Proceed(replaceKidBegin(mem, Top), SetTop([Top EXCEPT !.pc = "new", !.i = 0]))
    /\ UNCHANGED <<pages, tree, ret, hist, pre, lk, sp, cd, fsVars>>

(* tree.new(kid), line 23, and the rest of the loop body. *)
TreeNew ==
    /\ status = "run" /\ Top.pc = "new"
    /\ pages' = Put(pages, FreshPage, Top.split[Top.i + 1])
    /\ live' = live \cup {FreshPage}
    /\ log' = Append(log, Event("new", FreshPage, FALSE, Top.split[Top.i + 1]))
    /\ Proceed(replaceKidNext(mem, Top, FreshPage),
               SetTop([Top EXCEPT !.i = @ + 1,
                                  !.pc = IF Top.i + 1 < Len(Top.split) THEN "new" ELSE "ret"]))
    /\ UNCHANGED <<tree, ret, hist, pre, lk, sp, cd, fsVars>>

(* tree.new fails: the callback returns no error, so it panics. *)
TreeNewFails ==
    /\ status = "run" /\ Top.pc = "new"
    /\ Proceed(Panic(mem), stack)
    /\ UNCHANGED <<pages, live, tree, ret, log, hist, pre, lk, sp, cd, fsVars>>

(* The trees a run starts from: a root leaf page (empty, or with up to     *)
(* three ascending keys, or with one large value), a root over two leaves, *)
(* and a root over an internal node over two leaves.  Every page is a      *)
(* one-page buffer built through the codec; page p holds buffer p.         *)
RootKeys == {Bytes(2, 2), Bytes(3, 2), Bytes(5, 2)}
Small == Bytes(8, 2)
Large == Bytes(9, BTREE_MAX_VAL_SIZE)

LeafRecs(keys, val) == [i \in 1..Len(keys) |-> <<0, keys[i], val>>]

PagesOf(m) == [p \in 1..Len(m.heap) |-> Slice(p, BTREE_PAGE_SIZE)]
TreeOf(m) == [mem |-> m, pages |-> PagesOf(m), root |-> Len(m.heap)]

LeafTree(recs) == TreeOf(AddNode(EmptyMem, BTREE_PAGE_SIZE, BNODE_LEAF, recs))

TwoLevelMem(l1, l2) ==
    LET m1 == AddNode(EmptyMem, BTREE_PAGE_SIZE, BNODE_LEAF, l1)
        m2 == AddNode(m1, BTREE_PAGE_SIZE, BNODE_LEAF, l2)
    IN  AddNode(m2, BTREE_PAGE_SIZE, BNODE_NODE, <<<<1, l1[1][2], Nil>>, <<2, l2[1][2], Nil>>>>)

ThreeLevelMem(l1, l2) ==
    AddNode(TwoLevelMem(l1, l2), BTREE_PAGE_SIZE, BNODE_NODE, <<<<3, l1[1][2], Nil>>>>)

InitTrees ==
    {LeafTree(LeafRecs(keys, Small)) : keys \in AscendingSeqs(RootKeys, 3)}
    \cup {LeafTree(LeafRecs(<<Bytes(3, 2)>>, Large))}
    \cup {TreeOf(TwoLevelMem(LeafRecs(l1, Small), LeafRecs(<<Bytes(5, 2)>>, v))) :
            l1 \in {<<Bytes(2, 2)>>, <<Bytes(2, 2), Bytes(3, 2)>>}, v \in {Small, Large}}
    \cup {TreeOf(ThreeLevelMem(LeafRecs(<<Bytes(2, 2), Bytes(3, 2)>>, Small),
                               LeafRecs(<<Bytes(5, 2)>>, Small)))}

TreeInit ==
    /\ \E t \in InitTrees :
        /\ mem = t.mem
        /\ pages = t.pages
        /\ live = DOMAIN t.pages
        /\ tree = [root |-> t.root]
    /\ stack = <<>>
    /\ status = "idle"
    /\ ret = NoSlice
    /\ log = <<>>
    /\ hist = <<>>
    /\ pre = [heap |-> <<>>, live |-> {}, reach |-> {}, node |-> NoSlice, gots |-> {}]

(* Harness of nodeReplaceKidN (btree.go lines 15-26) called on its own:    *)
(* old is an internal node in a one-page buffer whose pointers are the     *)
(* page numbers 11, 12, ...; the kids are 1 to 3 leaves (what nodeSplit3   *)
(* can return, bnode.go line 205) of one record each; new is the zeroed    *)
(* 2-page buffer of treeInsert.  The page store starts empty, so tree.new  *)
(* hands out the page numbers 1, 2, 3.                                     *)
KidKeys == {Bytes(3, 2), Bytes(5, 2), Bytes(7, BTREE_MAX_KEY_SIZE)}

RECURSIVE AddKids(_, _, _)
AddKids(m, keys, j) ==
    IF j > Len(keys) THEN m
    ELSE AddKids(AddNode(m, BTREE_PAGE_SIZE, BNODE_LEAF, <<<<0, keys[j], Small>>>>), keys, j + 1)

ReplaceInit ==
    /\ \E keys \in AscendingSeqs(LeafKeys, MaxLeafKeys) \ {<<>>} :
       \E idx \in 0..(Len(keys) - 1) :
       \E kids \in UNION {[1..k -> KidKeys] : k \in 1..3} :
          LET m1 == AddNode(EmptyMem, BTREE_PAGE_SIZE, BNODE_NODE,
                            [i \in 1..Len(keys) |-> <<10 + i, keys[i], Nil>>])
              m2 == Alloc(AddKids(m1, kids, 1), 2 * BTREE_PAGE_SIZE)
          IN  /\ mem = m2
              /\ stack = <<[Frame(Slice(1, BTREE_PAGE_SIZE), Nil, Nil) EXCEPT
                              !.new = Last(m2, 2 * BTREE_PAGE_SIZE), !.idx = idx,
                              !.split = [j \in 1..Len(kids) |-> Slice(1 + j, BTREE_PAGE_SIZE)],
                              !.pc = "kids"]>>
              /\ pre = [heap |-> m2.heap, live |-> {}, reach |-> {},
                        node |-> Slice(1, BTREE_PAGE_SIZE), gots |-> {}]
    /\ pages = <<>> /\ live = {} /\ tree = [root |-> 0]
    /\ status = "run" /\ ret = NoSlice /\ log = <<>> /\ hist = <<>>

(* Lines 19-21 of a direct call. *)
ReplaceBegin ==
    /\ status = "run" /\ Top.pc = "kids"
    /\ Proceed(replaceKidBegin(mem, Top), SetTop([Top EXCEPT !.pc = "new", !.i = 0]))
    /\ UNCHANGED <<pages, live, tree, ret, log, hist, pre, lk, sp, cd, fsVars>>

(* The state of the parts a specification leaves alone. *)
TreeOff ==
    /\ mem = EmptyMem /\ pages = <<>> /\ live = {} /\ tree = [root |-> 0]
    /\ stack = <<>> /\ status = "off" /\ ret = NoSlice /\ log = <<>> /\ hist = <<>>
    /\ pre = [heap |-> <<>>, live |-> {}, reach |-> {}, node |-> NoSlice, gots |-> {}]
LookupOff == lk = [pc |-> "off"]
SplitOff == sp = [pc |-> "off"]
CodecOff == cd = [pc |-> "off"]

---------------------------------------------------------------------------
(* SaveData, internal/fs/fs.go lines 14-46, over a file system with a      *)
(* page cache.  fs.dcache and fs.ddisk are the entries (name -> inode,     *)
(* 0: none) of the directory that holds the target path, as the running    *)
(* system sees them and as stable storage holds them; an inode has its     *)
(* content in the cache and the part of it that reached stable storage.    *)
(* fs.dir tells whether that directory is the process's current directory  *)
(* ("cwd") or another one ("other"): line 36 opens ".".                    *)
Target == "target"
TmpNames == {"tmp1", "tmp2"}          \* path.tmp.<rand.Int32()>, line 15
Names == {Target} \cup TmpNames

DataLen == 2                           \* chunks of the data of one call
Data(p) == [i \in 1..DataLen |-> 10 * p + i]
OldContent == <<1, 2, 3>>
Absent == <<-1>>                       \* no file under the name

NoEntries == [n \in Names |-> 0]
NoErr == "nil"

(* What a reader of name n gets. *)
ContentOf(f, n) == IF f.dcache[n] = 0 THEN Absent ELSE f.inodes[f.dcache[n]].cache

(* os.OpenFile(tmp, O_WRONLY|O_CREATE|O_EXCL), line 16, succeeding. *)
openExcl(f, tmp) ==
    [f EXCEPT !.inodes = Append(@, [cache |-> <<>>, disk |-> <<>>]),
              !.dcache[tmp] = Len(f.inodes) + 1]

(* fp.Write, line 26: one chunk reaches the file. *)
fpWrite(f, ino, chunk) == [f EXCEPT !.inodes[ino].cache = Append(@, chunk)]

(* fp.Sync that flushes nothing. *)
fpSyncNothing(f, ino) == f

(* fp.Sync, line 29: the file's content reaches stable storage. *)
fpSync(f, ino) == [f EXCEPT !.inodes[ino].disk = f.inodes[ino].cache]

(* os.Rename(tmp, path), line 32: one atomic change of the directory. *)
osRename(f, tmp) == [f EXCEPT !.dcache[Target] = f.dcache[tmp], !.dcache[tmp] = 0]

(* dir.Sync on ".", lines 36-41: the current directory's entries reach     *)
(* stable storage.                                                         *)
dirSync(f) == IF f.dir = "cwd" THEN [f EXCEPT !.ddisk = f.dcache] ELSE f

(* os.Remove given the target path instead of the temp file. *)
osRemovePath(f, tmp) == [f EXCEPT !.dcache[Target] = 0]

(* os.Remove(tmp) of the deferred function, lines 20-25. *)
osRemove(f, tmp) == [f EXCEPT !.dcache[tmp] = 0]

(* The processes of a specification. *)
OneProc == {1}

(* Two calls on the same target path. *)
TwoProcs == {1, 2}

(* The error a failing step returns. *)
ErrOf(step) == "err_" \o step

(* A failing step after line 20: err is set, the deferred function runs next. *)
Fail(p, step, next) ==
    proc' = [proc EXCEPT ![p].err = ErrOf(step), ![p].failed = step, ![p].pc = next]

(* SaveOpen without O_EXCL: an existing file of that name is opened. *)
SaveOpenShared(p, tmp) ==
    /\ ~crashed /\ proc[p].pc = "open"
    /\ IF fs.dcache[tmp] # 0
       THEN /\ proc' = [proc EXCEPT ![p].tmp = tmp, ![p].ino = fs.dcache[tmp], ![p].pc = "write"]
            /\ UNCHANGED fs
       ELSE /\ fs' = openExcl(fs, tmp)
            /\ proc' = [proc EXCEPT ![p].tmp = tmp, ![p].ino = Len(fs.inodes) + 1,
                                    ![p].pc = "write"]
    /\ UNCHANGED <<treeVars, lk, sp, cd, crashed>>

SaveOpen(p, tmp) ==
    /\ ~crashed /\ proc[p].pc = "open"
    /\ IF fs.dcache[tmp] # 0
       THEN /\ proc' = [proc EXCEPT ![p].err = "err_open", ![p].failed = "open",
                                    ![p].result = "err_open", ![p].tmp = tmp,
                                    ![p].pc = "done"]
            /\ UNCHANGED fs
       ELSE /\ fs' = openExcl(fs, tmp)
            /\ proc' = [proc EXCEPT ![p].tmp = tmp, ![p].ino = Len(fs.inodes) + 1,
                                    ![p].pc = "write"]
    /\ UNCHANGED <<treeVars, lk, sp, cd, crashed>>

SaveOpenFails(p) ==
    /\ ~crashed /\ proc[p].pc = "open"
    /\ proc' = [proc EXCEPT ![p].err = "err_open", ![p].failed = "open",
                            ![p].result = "err_open", ![p].pc = "done"]
    /\ UNCHANGED <<treeVars, lk, sp, cd, fs, crashed>>

SaveWrite(p) ==
    /\ ~crashed /\ proc[p].pc = "write"
    /\ fs' = fpWrite(fs, proc[p].ino, Data(p)[proc[p].n + 1])
    /\ proc' = [proc EXCEPT ![p].n = @ + 1,
                            ![p].pc = IF proc[p].n + 1 = DataLen THEN "sync" ELSE "write"]
    /\ UNCHANGED <<treeVars, lk, sp, cd, crashed>>

SaveWriteFails(p) ==
    /\ ~crashed /\ proc[p].pc = "write"
    /\ Fail(p, "write", "defer")
    /\ UNCHANGED <<treeVars, lk, sp, cd, fs, crashed>>

SaveSync(p) ==
    /\ ~crashed /\ proc[p].pc = "sync"
    /\ fs' = fpSync(fs, proc[p].ino)
    /\ proc' = [proc EXCEPT ![p].pc = "rename"]
    /\ UNCHANGED <<treeVars, lk, sp, cd, crashed>>

SaveSyncFails(p) ==
    /\ ~crashed /\ proc[p].pc = "sync"
    /\ Fail(p, "sync", "defer")
    /\ UNCHANGED <<treeVars, lk, sp, cd, fs, crashed>>

SaveRename(p) ==
    /\ ~crashed /\ proc[p].pc = "rename"
    /\ fs.dcache[proc[p].tmp] # 0
    /\ fs' = osRename(fs, proc[p].tmp)
    /\ proc' = [proc EXCEPT ![p].pc = "opendir", ![p].renamed = TRUE]
    /\ UNCHANGED <<treeVars, lk, sp, cd, crashed>>

SaveRenameFails(p) ==
    /\ ~crashed /\ proc[p].pc = "rename"
    /\ Fail(p, "rename", "defer")
    /\ UNCHANGED <<treeVars, lk, sp, cd, fs, crashed>>

SaveOpenDir(p) ==
    /\ ~crashed /\ proc[p].pc = "opendir"
    /\ proc' = [proc EXCEPT ![p].pc = "dirsync"]
    /\ UNCHANGED <<treeVars, lk, sp, cd, fs, crashed>>

SaveOpenDirFails(p) ==
    /\ ~crashed /\ proc[p].pc = "opendir"
    /\ Fail(p, "opendir", "defer")
    /\ UNCHANGED <<treeVars, lk, sp, cd, fs, crashed>>

SaveDirSync(p) ==
    /\ ~crashed /\ proc[p].pc = "dirsync"
    /\ fs' = dirSync(fs)
    /\ proc' = [proc EXCEPT ![p].pc = "defer", ![p].dirsynced = TRUE]
    /\ UNCHANGED <<treeVars, lk, sp, cd, crashed>>

SaveDirSyncFails(p) ==
    /\ ~crashed /\ proc[p].pc = "dirsync"
    /\ Fail(p, "dirsync", "defer")
    /\ UNCHANGED <<treeVars, lk, sp, cd, fs, crashed>>

(* The deferred function (lines 20-25) and the return. *)
SaveReturn(p) ==
    /\ ~crashed /\ proc[p].pc = "defer"
    /\ fs' = IF proc[p].err # NoErr THEN osRemove(fs, proc[p].tmp) ELSE fs
    /\ proc' = [proc EXCEPT ![p].pc = "done", ![p].result = proc[p].err]
    /\ UNCHANGED <<treeVars, lk, sp, cd, crashed>>

(* The operating system writes cached state back whenever it likes: more   *)
(* of a file's content, or the directory's entries.                        *)
WritebackData ==
    /\ ~crashed
    /\ \E i \in 1..Len(fs.inodes) :
       \E k \in (Len(fs.inodes[i].disk) + 1)..Len(fs.inodes[i].cache) :
           fs' = [fs EXCEPT !.inodes[i].disk = SubSeq(fs.inodes[i].cache, 1, k)]
    /\ UNCHANGED <<treeVars, lk, sp, cd, proc, crashed>>

WritebackDir ==
    /\ ~crashed
    /\ fs.ddisk # fs.dcache
    /\ fs' = [fs EXCEPT !.ddisk = fs.dcache]
    /\ UNCHANGED <<treeVars, lk, sp, cd, proc, crashed>>

(* A crash: what is left is what stable storage holds. *)
Crash ==
    /\ ~crashed
    /\ crashed' = TRUE
    /\ fs' = [fs EXCEPT !.dcache = fs.ddisk,
                        !.inodes = [i \in 1..Len(fs.inodes) |->
                                      [fs.inodes[i] EXCEPT !.cache = fs.inodes[i].disk]]]
    /\ proc' = [p \in DOMAIN proc |-> [proc[p] EXCEPT !.at = proc[p].pc, !.pc = "dead"]]
    /\ UNCHANGED <<treeVars, lk, sp, cd>>

ProcInit(on, before) ==
    [pc |-> IF on THEN "open" ELSE "off", tmp |-> "none", ino |-> 0, n |-> 0, err |-> NoErr,
     failed |-> "none", result |-> "none", renamed |-> FALSE, dirsynced |-> FALSE, before |-> before,
     at |-> "none"]

(* The target is absent or holds an earlier, durable content; a temp file  *)
(* of an earlier run may be left over.                                     *)
InitialFs ==
    {[dir |-> d,
      inodes |-> (IF old THEN <<[cache |-> OldContent, disk |-> OldContent]>> ELSE <<>>)
                 \o (IF stale THEN <<[cache |-> <<>>, disk |-> <<>>]>> ELSE <<>>),
      dcache |-> [n \in Names |-> IF n = Target /\ old THEN 1
                                  ELSE IF n = "tmp1" /\ stale THEN (IF old THEN 2 ELSE 1)
                                  ELSE 0],
      ddisk |-> [n \in Names |-> IF n = Target /\ old THEN 1
                                 ELSE IF n = "tmp1" /\ stale THEN (IF old THEN 2 ELSE 1)
                                 ELSE 0],
      old |-> IF old THEN OldContent ELSE Absent]
     : d \in {"cwd", "other"}, old \in BOOLEAN, stale \in BOOLEAN}

FsInit(P) ==
    /\ fs \in InitialFs
    /\ proc = [p \in {1, 2} |-> ProcInit(p \in P, fs.old)]
    /\ crashed = FALSE

FsOff ==
    /\ fs = [dir |-> "cwd", inodes |-> <<>>, dcache |-> NoEntries, ddisk |-> NoEntries,
             old |-> Absent]
    /\ proc = [p \in {1, 2} |-> ProcInit(FALSE, Absent)]
    /\ crashed = FALSE

---------------------------------------------------------------------------
(* The specifications. *)

(* The tree engine: top-level treeInsert calls on one of the start trees. *)
Init == TreeInit /\ LookupOff /\ SplitOff /\ CodecOff /\ FsOff
Next ==
    \/ \E key \in InsertKeys, val \in InsertVals : TreeCall(key, val)
    \/ TreeEnter
    \/ TreeGet
    \/ TreeReturn
    \/ TreeDel
    \/ TreeNew
    \/ TreeNewFails
Spec == Init /\ [][Next]_vars

(* nodeLookupLE applied to drawn inputs. *)
InitLookup == TreeOff /\ LookupInit /\ SplitOff /\ CodecOff /\ FsOff
SpecLookup == InitLookup /\ [][LookupApply]_vars

(* nodeSplit3 applied to drawn inputs. *)
InitSplit == TreeOff /\ LookupOff /\ SplitInit /\ CodecOff /\ FsOff
SpecSplit == InitSplit /\ [][SplitApply]_vars

(* One SaveData call, the operating system's writeback, and a crash. *)
InitFS == TreeOff /\ LookupOff /\ SplitOff /\ CodecOff /\ FsInit(OneProc)
NextFS ==
    \/ \E p \in OneProc :
        \/ \E tmp \in TmpNames : SaveOpen(p, tmp)
        \/ SaveOpenFails(p)
        \/ SaveWrite(p)
        \/ SaveWriteFails(p)
        \/ SaveSync(p)
        \/ SaveSyncFails(p)
        \/ SaveRename(p)
        \/ SaveRenameFails(p)
        \/ SaveOpenDir(p)
        \/ SaveOpenDirFails(p)
        \/ SaveDirSync(p)
        \/ SaveDirSyncFails(p)
        \/ SaveReturn(p)
    \/ WritebackData
    \/ WritebackDir
    \/ Crash
SpecFS == InitFS /\ [][NextFS]_vars

(* nodeSplit2 applied to drawn inputs. *)
InitSplit2 == TreeOff /\ LookupOff /\ Split2Init /\ CodecOff /\ FsOff
SpecSplit2 == InitSplit2 /\ [][Split2Apply]_vars

(* leafInsert and leafUpdate applied to drawn inputs. *)
InitLeaf == TreeOff /\ LookupOff /\ SplitOff /\ LeafInit /\ FsOff
NextLeaf == LeafInsertApply \/ LeafUpdateApply
SpecLeaf == InitLeaf /\ [][NextLeaf]_vars

(* nodeAppendKV filling drawn nodes slot by slot. *)
InitAppend == TreeOff /\ LookupOff /\ SplitOff /\ AppendInit /\ FsOff
SpecAppend == InitAppend /\ [][AppendStep]_vars

(* One record appended to an empty node. *)
InitOne == TreeOff /\ LookupOff /\ SplitOff /\ OneInit /\ FsOff
SpecOne == InitOne /\ [][OneBuild]_vars

(* nodeReplaceKidN applied to drawn inputs, tree.new answering. *)
InitReplace == ReplaceInit /\ LookupOff /\ SplitOff /\ CodecOff /\ FsOff
NextReplace == ReplaceBegin \/ TreeNew
SpecReplace == InitReplace /\ [][NextReplace]_vars

(* Two SaveData calls on one target path, their steps interleaved. *)
InitFS2 == TreeOff /\ LookupOff /\ SplitOff /\ CodecOff /\ FsInit(TwoProcs)
NextFS2 ==
    \E p \in TwoProcs :
        \/ \E tmp \in TmpNames : SaveOpen(p, tmp)
        \/ SaveOpenFails(p)
        \/ SaveWrite(p)
        \/ SaveWriteFails(p)
        \/ SaveSync(p)
        \/ SaveSyncFails(p)
        \/ SaveRename(p)
        \/ SaveRenameFails(p)
        \/ SaveOpenDir(p)
        \/ SaveOpenDirFails(p)
        \/ SaveDirSync(p)
        \/ SaveDirSyncFails(p)
        \/ SaveReturn(p)
SpecFS2 == InitFS2 /\ [][NextFS2]_vars

---------------------------------------------------------------------------
(* The claims. *)

RECURSIVE ConcatEntries(_, _, _)
ConcatEntries(m, split, i) ==
    IF i > Len(split) THEN <<>>
    ELSE Entries(View(m, split[i])) \o ConcatEntries(m, split, i + 1)

(* C1: for every node with nbytes() > 4096 (at least 2 keys, records      *)
(* within the size ceilings, total within the 2-page buffer), nodeSplit3   *)
(* returns 2 or 3 nodes, each with nbytes() <= 4096, whose entries         *)
(* concatenated in order are the original node's entries.                  *)
C1_Split3Fits ==
    (sp.pc \in {"done", "panicked"} /\ nbytes(sp.input) > BTREE_PAGE_SIZE
        /\ nkeys(sp.input) >= 2)
    => /\ sp.pc = "done"
       /\ sp.nsplit \in {2, 3}
       /\ \A i \in 1..Len(sp.split) : nbytes(View(sp.m, sp.split[i])) <= BTREE_PAGE_SIZE
       /\ ConcatEntries(sp.m, sp.split, 1) = Entries(sp.input)

(* The calls of a run that started on a leaf. *)
LeafRun == Len(hist) > 0 /\ btype(View(mem, hist[1].node)) = BNODE_LEAF
HasKey(node, key) == \E i \in 0..(nkeys(node) - 1) : Equal(getKey(node, i), key)

(* C2: starting from a non-empty leaf with strictly ascending keys, after  *)
(* any sequence of treeInsert calls, each on the leaf the previous one     *)
(* returned, the leaf's keys are strictly ascending, and each insert of an *)
(* absent key raises nkeys by exactly 1.                                   *)
C2_LeafStaysSorted ==
    LeafRun =>
        \A n \in 1..Len(hist) :
            /\ Sorted(View(mem, hist[n].out))
            /\ ~HasKey(View(mem, hist[n].node), hist[n].key)
                => nkeys(View(mem, hist[n].out)) = nkeys(View(mem, hist[n].node)) + 1

(* The index nodeLookupLE is to return: the largest i with key(i) <= key,  *)
(* 0 when there is none.                                                   *)
LargestLE(node, key) ==
    LET le == {i \in 0..(nkeys(node) - 1) : Compare(getKey(node, i), key) <= 0}
    IN  IF le = {} THEN 0 ELSE CHOOSE i \in le : \A j \in le : j <= i

(* C3: for every node with strictly ascending keys, of any key count, and  *)
(* every target, nodeLookupLE returns the largest index i with             *)
(* key(i) <= target, and 0 when no key is <= target.                       *)
C3_LookupLE == lk.pc = "done" => lk.res = LargestLE(lk.node, lk.key)

(* C4: inserting the same key twice in a row into a non-empty sorted leaf  *)
(* leaves nkeys as the first insert made it; the key occurs once and maps  *)
(* to the latest value.                                                    *)
C4_RepeatedInsert ==
    \A n \in 1..(Len(hist) - 1) :
        LET first == View(mem, hist[n].node)
            mid == View(mem, hist[n].out)
            out == View(mem, hist[n + 1].out)
        IN  (/\ btype(first) = BNODE_LEAF /\ nkeys(first) >= 1 /\ Sorted(first)
             /\ hist[n + 1].node = hist[n].out
             /\ hist[n + 1].key = hist[n].key)
            => /\ nkeys(out) = nkeys(mid)
               /\ Cardinality({i \in 0..(nkeys(out) - 1) : Equal(getKey(out, i), hist[n].key)}) = 1
               /\ \A i \in 0..(nkeys(out) - 1) :
                    Equal(getKey(out, i), hist[n].key) => getVal(out, i) = hist[n + 1].val

(* What a reader of the target path gets. *)
TargetContent == ContentOf(fs, Target)

(* C5: whatever step of SaveData a crash interrupts, the target path shows *)
(* exactly the old content or exactly the complete new data, before the    *)
(* crash and after it.                                                     *)
C5_CrashAtomic == TargetContent \in {fs.old} \cup {Data(p) : p \in OneProc}

(* A crash during the write left a partly written temp file on stable      *)
(* storage while the call had renamed nothing.                             *)
C5_Witness ==
    /\ crashed
    /\ proc[1].at = "write"
    /\ \E tmp \in TmpNames : ContentOf(fs, tmp) = SubSeq(Data(1), 1, 1)

(* C6: during a treeInsert, del is never called on a page number that is   *)
(* reachable from tree.root at the moment of the call.                     *)
C6_DelUnreachable == \A n \in 1..Len(log) : log[n].op = "del" => ~log[n].reachable

(* C7: if a treeInsert fails, every page reachable from tree.root before   *)
(* the call is still live in the page store and holds its original bytes.  *)
C7_FailureKeepsPages ==
    status = "panicked" =>
        \A p \in pre.reach :
            /\ p \in live
            /\ mem.heap[pages[p].id] = pre.heap[pages[p].id]

(* C8: the input node, every buffer tree.get returned, and every other     *)
(* buffer that existed before a treeInsert call are unchanged during and   *)
(* after the call: all writes go to buffers allocated during the call.     *)
C8_CopyOnWrite ==
    status \in {"run", "returned", "panicked"} =>
        /\ \A id \in 1..Len(pre.heap) : mem.heap[id] = pre.heap[id]
        /\ pre.node.id \in 1..Len(pre.heap)
        /\ \A g \in pre.gots : g.id \in 1..Len(pre.heap)

(* A call through an internal node returned: it read a page with get,      *)
(* released it and registered its replacement in buffers of its own.       *)
C8_Witness ==
    /\ status = "returned"
    /\ pre.gots # {}
    /\ \E n \in 1..Len(log) : log[n].op = "new"
    /\ Len(mem.heap) > Len(pre.heap)
    /\ ByteLen(hist[Len(hist)].val) = BTREE_MAX_VAL_SIZE

(* C9: if the exclusive create, the write, the fsync or the rename fails,  *)
(* SaveData returns that error and the target path is as it was before the *)
(* call: the same file with the same content, or absent.                   *)
C9_FailureLeavesTarget ==
    \A p \in OneProc :
        (proc[p].pc = "done" /\ proc[p].failed \in {"open", "write", "sync", "rename"})
        => /\ proc[p].result = ErrOf(proc[p].failed)
           /\ TargetContent = proc[p].before
           /\ fs.dcache[Target] = (IF fs.old = Absent THEN 0 ELSE 1)

(* The rename failed with the new data complete in the temp file, and the  *)
(* call returned over an existing target.                                  *)
C9_Witness ==
    /\ proc[1].pc = "done"
    /\ proc[1].failed = "rename"
    /\ proc[1].n = DataLen
    /\ fs.old = OldContent

Oversized(key, val) ==
    ByteLen(key) > BTREE_MAX_KEY_SIZE \/ ByteLen(val) > BTREE_MAX_VAL_SIZE

(* C10: treeInsert called with a key longer than 1000 bytes or a value     *)
(* longer than 3000 bytes fails at once: no frame gets past its entry with *)
(* such a record, and no call returns a node for it.                       *)
C10_OversizedFatal ==
    /\ \A n \in 1..Len(stack) :
         Oversized(stack[n].key, stack[n].val) => stack[n].pc = "enter"
    /\ \A n \in 1..Len(hist) : ~Oversized(hist[n].key, hist[n].val)

(* C11: whenever nodeSplit2(left, right, old) returns, the nleft it chose  *)
(* satisfies 1 <= nleft < old.nkeys(), left and right hold nleft and       *)
(* old.nkeys() - nleft keys, and right.nbytes() <= 4096.                   *)
C11_Split2Exit ==
    sp.pc = "done2" =>
        /\ 1 <= sp.nleft /\ sp.nleft < nkeys(sp.input)
        /\ nkeys(View(sp.m, sp.left)) = sp.nleft
        /\ nkeys(View(sp.m, sp.right)) = nkeys(sp.input) - sp.nleft
        /\ nkeys(View(sp.m, sp.right)) >= 1
        /\ nbytes(View(sp.m, sp.right)) <= BTREE_PAGE_SIZE

(* nodeSplit2 returned, having moved nleft past its first guess. *)
C11_Witness ==
    /\ sp.pc = "done2"
    /\ nkeys(sp.input) = 3
    /\ sp.nleft = 2
    /\ Entries(View(sp.m, sp.left)) \o Entries(View(sp.m, sp.right)) = Entries(sp.input)

(* nodeSplit2 returns for no node that fits the 2-page work buffer of      *)
(* treeInsert.                                                             *)
C11_InContractNeverReturns ==
    (sp.pc = "done2") => sp.old.len > 2 * BTREE_PAGE_SIZE

(* Every slot of the node can be read: no accessor panics. *)
Readable(node) ==
    \A i \in 0..(nkeys(node) - 1) : getPtrOK(node, i) /\ getKeyOK(node, i) /\ getValOK(node, i)

(* C12: for every leaf old and every idx in 0..old.nkeys(), leafInsert     *)
(* yields a leaf with old.nkeys() + 1 entries: old's entries [0, idx),     *)
(* then (key, val), then old's entries [idx, old.nkeys()).                 *)
C12_LeafInsert ==
    cd.pc \in {"inserted", "insert_panicked"} =>
        LET out == View(cd.m, cd.new)
            E == Entries(cd.input)
        IN  /\ cd.pc = "inserted"
            /\ btype(out) = BNODE_LEAF
            /\ nkeys(out) = nkeys(cd.input) + 1
            /\ Readable(out)
            /\ Entries(out) = SubSeq(E, 1, cd.idx) \o <<<<0, cd.key, cd.val>>>>
                                \o SubSeq(E, cd.idx + 1, Len(E))

(* An insert in the middle of a three-key leaf, with a record of maximal   *)
(* size, returned.                                                         *)
C12_Witness ==
    /\ cd.pc = "inserted"
    /\ nkeys(cd.input) = 3 /\ cd.idx = 1
    /\ ByteLen(cd.key) = BTREE_MAX_KEY_SIZE /\ ByteLen(cd.val) = BTREE_MAX_VAL_SIZE
    /\ getKey(View(cd.m, cd.new), 1) = cd.key

(* C13: for every leaf old and every idx < old.nkeys(), leafUpdate yields  *)
(* a leaf with the same nkeys in which entry idx holds (key, val) and      *)
(* every other entry is old's, whatever the length of the new value.       *)
C13_LeafUpdate ==
    cd.pc \in {"updated", "update_panicked"} =>
        LET out == View(cd.m, cd.new)
            E == Entries(cd.input)
        IN  /\ cd.pc = "updated"
            /\ btype(out) = BNODE_LEAF
            /\ nkeys(out) = nkeys(cd.input)
            /\ Readable(out)
            /\ Entries(out) = [E EXCEPT ![cd.idx + 1] = <<0, cd.key, cd.val>>]

(* An update of the middle entry of a three-key leaf to a value of another *)
(* length returned.                                                        *)
C13_Witness ==
    /\ cd.pc = "updated"
    /\ nkeys(cd.input) = 3 /\ cd.idx = 1
    /\ ByteLen(cd.val) # ByteLen(getVal(cd.input, 1))
    /\ getVal(View(cd.m, cd.new), 1) = cd.val
    /\ getVal(View(cd.m, cd.new), 2) = getVal(cd.input, 2)

(* C14: after slots 0..i-1 of a node were filled left to right by          *)
(* nodeAppendKV, getPtr(j), getKey(j) and getVal(j) return what was        *)
(* appended to slot j, for every j < i; checked after every append, so     *)
(* that a later append altering an earlier slot is seen.                   *)
C14_RoundTrip ==
    cd.pc = "fill" =>
        \A j \in 0..(cd.i - 1) :
            LET node == View(cd.m, cd.node)
            IN  /\ getPtrOK(node, j) /\ getKeyOK(node, j) /\ getValOK(node, j)
                /\ getPtr(node, j) = cd.recs[j + 1][1] + j
                /\ getKey(node, j) = cd.recs[j + 1][2]
                /\ getVal(node, j) = cd.recs[j + 1][3]

(* The same for the nodes whose records end within the buffer. *)
C14_RoundTripWhenFits ==
    (cd.pc = "fill" /\ nbytes(View(cd.m, cd.node)) <= cd.node.len /\ cd.i = Len(cd.recs))
        => C14_RoundTrip

(* C15: whenever SaveData returns without error, the directory that holds  *)
(* the target path was flushed after the rename: the entry the rename made *)
(* (target -> the new file) is on stable storage, whichever directory the  *)
(* path lies in.                                                           *)
C15_DirFlushed ==
    \A p \in OneProc :
        (proc[p].pc = "done" /\ proc[p].result = NoErr)
        => /\ proc[p].renamed /\ proc[p].dirsynced
           /\ fs.ddisk[Target] = proc[p].ino

(* The same for a target path in the process's current directory. *)
C15_DirFlushedInCwd == fs.dir = "cwd" => C15_DirFlushed

(* C16: every node holding exactly one record with a key of at most 1000   *)
(* bytes and a value of at most 3000 bytes has                             *)
(* nbytes() = 4 + 8 + 2 + 4 + len(key) + len(val) <= 4096.                 *)
C16_OneRecordFits ==
    cd.pc \in {"built", "one_panicked"} =>
        /\ cd.pc = "built"
        /\ nkeys(View(cd.m, cd.node)) = 1
        /\ nbytes(View(cd.m, cd.node)) = 4 + 8 + 2 + 4 + ByteLen(cd.key) + ByteLen(cd.val)
        /\ nbytes(View(cd.m, cd.node)) <= BTREE_PAGE_SIZE

(* A node with one record of maximal size was built in a one-page buffer. *)
C16_Witness ==
    /\ cd.pc = "built"
    /\ cd.node.len = BTREE_PAGE_SIZE
    /\ ByteLen(getKey(View(cd.m, cd.node), 0)) = BTREE_MAX_KEY_SIZE
    /\ ByteLen(getVal(View(cd.m, cd.node), 0)) = BTREE_MAX_VAL_SIZE

(* The callbacks one level of the current call issued, in order. *)
RECURSIVE LevelLog(_, _)
LevelLog(d, n) ==
    IF n = 0 THEN <<>>
    ELSE IF log[n].depth = d THEN Append(LevelLog(d, n - 1), log[n])
    ELSE LevelLog(d, n - 1)

(* C17: in a treeInsert each internal level issues get(kptr) for the page  *)
(* kptr = getPtr(idx) of the child it descends into, then, after the       *)
(* recursive insert returned and was split, del(kptr), then one new per    *)
(* split result, 1 to 3, left to right, and nothing else; no callback of a *)
(* deeper level follows the del.  The node a top-level call returns is     *)
(* never passed to new, and the page of its input node never to del.       *)
C17_CallbackOrder ==
    /\ \A d \in 1..Len(log) :
         LET L == LevelLog(d, Len(log))
         IN  /\ Len(L) >= 1 =>
                  /\ L[1].op = "get"
                  /\ btype(View(mem, L[1].node)) = BNODE_NODE
                  /\ L[1].page = getPtr(View(mem, L[1].node),
                                        nodeLookupLE(View(mem, L[1].node), L[1].key))
             /\ Len(L) >= 2 => L[2].op = "del" /\ L[2].page = L[1].page
             /\ \A j \in 3..Len(L) :
                  /\ L[j].op = "new"
                  /\ L[j].kid = j - 2 /\ L[j].kid <= L[j].of /\ L[j].of \in 1..3
                  /\ L[j].arg.id # L[1].node.id
             /\ status = "returned" /\ Len(L) >= 1 =>
                  Len(L) >= 3 /\ Len(L) = 2 + L[Len(L)].of
    /\ \A a \in 1..Len(log) : \A b \in (a + 1)..Len(log) :
         /\ log[a].op = "del" => log[b].depth <= log[a].depth
         /\ log[b].op = "get" => log[a].depth < log[b].depth
    /\ \A a \in 1..Len(log) :
         /\ log[a].op = "new" /\ status = "returned" => log[a].arg.id # ret.id
         /\ log[a].op = "del" => pages[log[a].page] # pre.node

(* A call on a root over an internal node over leaves returned: two levels *)
(* issued their get, del and new.                                          *)
C17_Witness ==
    /\ status = "returned"
    /\ Len(log) = 6
    /\ log[1].op = "get" /\ log[2].op = "get" /\ log[3].op = "del" /\ log[4].op = "new"
    /\ log[5].op = "del" /\ log[6].op = "new"
    /\ log[3].page = log[2].page /\ log[5].page = log[1].page

(* The entries nodeReplaceKidN is to put in for the kids: for kid j the    *)
(* page number tree.new returned for it, its first key, an empty value.    *)
KidEntries == [j \in 1..Len(log) |-> <<log[j].page, getKey(View(mem, log[j].arg), 0), Nil>>]

(* C18: for an internal node old, idx < old.nkeys() and 1 to 3 kids,       *)
(* nodeReplaceKidN yields an internal node of old.nkeys() + m - 1 entries: *)
(* old's entries [0, idx), then per kid the page tree.new returned, the    *)
(* kid's first key and an empty value, then old's entries after idx.       *)
C18_ReplaceKidN ==
    (status = "panicked" \/ (status = "run" /\ Top.pc = "ret")) =>
        /\ status = "run"
        /\ LET old == View(mem, Top.node)
               out == View(mem, Top.new)
               E == Entries(old)
           IN  /\ btype(out) = BNODE_NODE
               /\ nkeys(out) = nkeys(old) + Len(Top.split) - 1
               /\ Len(log) = Len(Top.split)
               /\ \A j \in 1..Len(log) :
                    log[j].op = "new" /\ log[j].arg = Top.split[j] /\ pages[log[j].page] = Top.split[j]
               /\ Readable(out)
               /\ Entries(out) = SubSeq(E, 1, Top.idx) \o KidEntries
                                   \o SubSeq(E, Top.idx + 2, Len(E))

(* The middle link of a three-key node was replaced by three kids. *)
C18_Witness ==
    /\ status = "run" /\ Len(stack) = 1 /\ Top.pc = "ret"
    /\ nkeys(View(mem, Top.node)) = 3 /\ Top.idx = 1 /\ Len(Top.split) = 3
    /\ nkeys(View(mem, Top.new)) = 5
    /\ getPtr(View(mem, Top.new), 3) = 3
    /\ getPtr(View(mem, Top.new), 4) = 13

(* The current top-level call was made on a leaf with zero keys. *)
OnEmptyLeaf ==
    /\ status \in {"run", "returned", "panicked"}
    /\ pre.node # NoSlice
    /\ btype(View(mem, pre.node)) = BNODE_LEAF
    /\ nkeys(View(mem, pre.node)) = 0

(* C19: treeInsert applied to a leaf with zero keys never returns a node:  *)
(* the getKey(0) of line 35 fails its assertion, so the call aborts before *)
(* leafInsert wrote anything to the work buffer and before any page-store  *)
(* callback.                                                               *)
C19_EmptyLeafAborts ==
    OnEmptyLeaf =>
        /\ status # "returned"
        /\ log = <<>>
        /\ pages = PagesOf(pre) /\ live = pre.live
        /\ \A n \in 1..Len(stack) : stack[n].pc = "enter"
        /\ \A id \in (Len(pre.heap) + 1)..Len(mem.heap) : mem.heap[id] = NewBuf(2 * BTREE_PAGE_SIZE)

(* The call on the empty leaf panicked with its work buffer allocated. *)
C19_Witness ==
    /\ OnEmptyLeaf
    /\ status = "panicked"
    /\ Len(mem.heap) = Len(pre.heap) + 1

(* No file holds chunks of both calls: every file is the old content, a    *)
(* stale empty temp file, or a prefix of one call's data.                  *)
NoSharedTemp ==
    \A i \in 1..Len(fs.inodes) :
        \/ fs.inodes[i].cache = OldContent
        \/ \E p \in TwoProcs, k \in 0..DataLen : fs.inodes[i].cache = SubSeq(Data(p), 1, k)

(* A call that failed at the exclusive create returned that error and      *)
(* wrote nothing.                                                          *)
FailedCreateWroteNothing ==
    \A p \in TwoProcs :
        (proc[p].pc = "done" /\ proc[p].failed = "open")
        => proc[p].result = ErrOf("open") /\ proc[p].n = 0 /\ proc[p].ino = 0

BothEnded == \A p \in TwoProcs : proc[p].pc = "done"

(* C20 as stated: for two interleaved SaveData calls on one target path,   *)
(* no temp file is written by both, a call failing at the exclusive create *)
(* returns the error having written nothing, and once both calls ended     *)
(* (one of them at least with success) the target holds the complete data  *)
(* of a call that returned success.                                        *)
C20_Original ==
    /\ NoSharedTemp
    /\ FailedCreateWroteNothing
    /\ (BothEnded /\ \E p \in TwoProcs : proc[p].result = NoErr)
         => \E p \in TwoProcs : proc[p].result = NoErr /\ TargetContent = Data(p)

(* C20 as amended: ... once both calls ended the target holds the complete *)
(* data of one call whose rename succeeded (whether that call then         *)
(* returned success or failed after its rename), or, if no rename          *)
(* succeeded, what it held before; never a mixture of the two.             *)
C20_NoMixture ==
    /\ NoSharedTemp
    /\ FailedCreateWroteNothing
    /\ TargetContent \in {fs.old} \cup {Data(p) : p \in TwoProcs}
    /\ BothEnded =>
         IF \E p \in TwoProcs : proc[p].renamed
         THEN \E p \in TwoProcs : proc[p].renamed /\ TargetContent = Data(p)
         ELSE TargetContent = fs.old /\ \A p \in TwoProcs : proc[p].result # NoErr

(* Both calls ended, one with success; the other renamed its complete data *)
(* over the target and then failed, and the target holds that data.        *)
C20_Witness ==
    /\ BothEnded
    /\ proc[1].result = NoErr
    /\ proc[2].renamed /\ proc[2].result # NoErr
    /\ TargetContent = Data(2)

=============================================================================
